---- MODULE Spec2Model ----
(***************************************************************************)
(* Model of the agent login/logoff extraction of agentEvents.js            *)
(* (getAgentLoginLogoffTimes) over bounded batches of upstream events.     *)
(*                                                                         *)
(* JavaScript values are records with a type tag t and one payload field   *)
(* per primitive type, so that values of different types can be compared.  *)
(* A JavaScript string is a tuple of one-character strings, so that        *)
(* toLowerCase and the template literal that builds the agent key are      *)
(* computed character by character.                                        *)
(***************************************************************************)
EXTENDS Integers, Sequences, FiniteSets, TLC

\* ---------------------------------------------------------------- bounds
MaxLen == 3
MaxClassLen == 2
MaxTs == 3
BaseTs == 1700000000
TsStep == 30000
MaxCallLen == 3
MaxCalls == 2
MaxRouteLen == 2
MaxStatusLen == 2
MaxPages == 3
MaxPageRows == 2
MaxTicks == 2
MaxTokenCalls == 2
MaxPuts == 3
MaxInFlight == 2

\* ----------------------------------------------------- JavaScript values
Undefined == [t |-> "undefined", s |-> <<>>, n |-> 0, b |-> FALSE]
Null == [t |-> "null", s |-> <<>>, n |-> 0, b |-> FALSE]
Str(chars) == [t |-> "string", s |-> chars, n |-> 0, b |-> FALSE]
Num(k) == [t |-> "number", s |-> <<>>, n |-> k, b |-> FALSE]
Bool(v) == [t |-> "boolean", s |-> <<>>, n |-> 0, b |-> v]

\* ToBoolean, as applied by !x and by the operands of &&
Truthy(v) ==
  CASE v.t = "undefined" -> FALSE
    [] v.t = "null" -> FALSE
    [] v.t = "string" -> v.s # <<>>
    [] v.t = "number" -> v.n # 0
    [] v.t = "boolean" -> v.b

\* String.prototype.toLowerCase on one character
LowerChar(c) ==
  CASE c = "A" -> "a" [] c = "B" -> "b" [] c = "C" -> "c" [] c = "D" -> "d"
    [] c = "E" -> "e" [] c = "F" -> "f" [] c = "G" -> "g" [] c = "H" -> "h"
    [] c = "I" -> "i" [] c = "J" -> "j" [] c = "K" -> "k" [] c = "L" -> "l"
    [] c = "M" -> "m" [] c = "N" -> "n" [] c = "O" -> "o" [] c = "P" -> "p"
    [] c = "Q" -> "q" [] c = "R" -> "r" [] c = "S" -> "s" [] c = "T" -> "t"
    [] c = "U" -> "u" [] c = "V" -> "v" [] c = "W" -> "w" [] c = "X" -> "x"
    [] c = "Y" -> "y" [] c = "Z" -> "z"
    [] OTHER -> c

toLowerCase(chars) == [i \in 1..Len(chars) |-> LowerChar(chars[i])]

\* ------------------------------------------------------ display conversion
Digit(d) == <<"0", "1", "2", "3", "4", "5", "6", "7", "8", "9">>[d + 1]
TwoDigit(k) == <<Digit((k \div 10) % 10), Digit(k % 10)>>
FourDigit(k) ==
  <<Digit((k \div 1000) % 10), Digit((k \div 100) % 10)>> \o TwoDigit(k % 100)

IstOffset == 19800

\* civil date of a day count since 1970-01-01 (proleptic Gregorian calendar)
CivilFromDays(days) ==
  LET z == days + 719468
      era == z \div 146097
      doe == z - era * 146097
      yoe == (doe - doe \div 1460 + doe \div 36524 - doe \div 146096) \div 365
      doy == doe - (365 * yoe + yoe \div 4 - yoe \div 100)
      mp == (5 * doy + 2) \div 153
      d == doy - (153 * mp + 2) \div 5 + 1
      m == IF mp < 10 THEN mp + 3 ELSE mp - 9
      y == yoe + era * 400 + (IF m <= 2 THEN 1 ELSE 0)
  IN [day |-> d, month |-> m, year |-> y]

\* new Date(Timestamp * 1000).toLocaleString('en-IN', {timeZone:
\* 'Asia/Kolkata', day/month/hour/minute/second: '2-digit', year: 'numeric'})
\* The en-IN locale uses the 12-hour clock with a lower-case day period.
toLocaleStringIST(ts) ==
  IF ts.t = "number"
  THEN LET local == ts.n + IstOffset
           date == CivilFromDays(local \div 86400)
           sod == local % 86400
           h24 == sod \div 3600
           h12 == IF h24 % 12 = 0 THEN 12 ELSE h24 % 12
       IN Str(TwoDigit(date.day) \o <<"/">> \o TwoDigit(date.month) \o <<"/">>
              \o FourDigit(date.year) \o <<",", " ">>
              \o TwoDigit(h12) \o <<":">> \o TwoDigit((sod \div 60) % 60)
              \o <<":">> \o TwoDigit(sod % 60)
              \o <<" ">> \o (IF h24 < 12 THEN <<"a", "m">> ELSE <<"p", "m">>))
  ELSE Str(<<"I", "n", "v", "a", "l", "i", "d", " ", "D", "a", "t", "e">>)

\* ----------------------------------------------------------- input events
\* an upstream event object; isNull marks a null array element
labelState == Str(<<"a", "g", "e", "n", "t", "_", "s", "t", "a", "t", "e">>)
labelLogin == Str(<<"l", "o", "g", "i", "n">>)

Ev(uid, uname, ext, state, enabled, ts) ==
  [isNull |-> FALSE, event |-> labelState, user_id |-> uid, username |-> uname,
   ext |-> ext, state |-> state, enabled |-> enabled, Timestamp |-> ts]

\* the same event under another event label
Relabel(e, label) == [e EXCEPT !.event = label]

NullEvent ==
  [isNull |-> TRUE, event |-> Undefined, user_id |-> Undefined,
   username |-> Undefined, ext |-> Undefined, state |-> Undefined,
   enabled |-> Undefined, Timestamp |-> Undefined]

TsOf(k) == Num(BaseTs + k * TsStep)

sLogin == Str(<<"L", "o", "g", "i", "n">>)
sLOGIN == Str(<<"L", "O", "G", "I", "N">>)
slogin == Str(<<"l", "o", "g", "i", "n">>)
sLogins == Str(<<"L", "o", "g", "i", "n", "s">>)
sLogoff == Str(<<"L", "o", "g", "o", "f", "f">>)
slogOFF == Str(<<"l", "o", "g", "O", "F", "F">>)
sAvailable == Str(<<"a", "v", "a", "i", "l", "a", "b", "l", "e">>)
sAVAILABLE == Str(<<"A", "V", "A", "I", "L", "A", "B", "L", "E">>)
sTrue == Str(<<"t", "r", "u", "e">>)

uidU1 == Str(<<"u", "1">>)
uidA == Str(<<"a">>)
uidAB == Str(<<"a", "_", "b">>)
extC == Str(<<"c">>)
extBC == Str(<<"b", "_", "c">>)
ext100 == Str(<<"1", "0", "0">>)
nameA == Str(<<"A">>)
nameB == Str(<<"B">>)
nameC == Str(<<"C">>)

\* one agent, login and logoff markers at every timestamp of the domain,
\* Timestamp 0 and a missing Timestamp included
TimeEvents ==
  { Ev(uidU1, nameA, ext100, st, Bool(TRUE), ts) :
      st \in {sLogin, sLogoff},
      ts \in {Num(0), Undefined} \cup { TsOf(k) : k \in 1..MaxTs } }

\* several agents: keys (a_b, c) and (a, b_c), key (a, c), disabled logins,
\* differing usernames, events lacking an identity field, a null element
IdentEvents ==
  { Ev(uidAB, nameA, extC, sLogin, Bool(TRUE), TsOf(2)),
    Ev(uidA, nameB, extBC, sLogin, Bool(TRUE), TsOf(1)),
    Ev(uidAB, nameA, extC, sAvailable, Bool(TRUE), TsOf(1)),
    Ev(uidA, nameB, extBC, sLogoff, Bool(TRUE), TsOf(3)),
    Ev(uidA, nameA, extC, sLogoff, Bool(TRUE), TsOf(2)),
    Ev(uidAB, nameB, extC, sLOGIN, Bool(FALSE), TsOf(1)),
    Ev(uidA, nameA, extC, slogin, Bool(FALSE), TsOf(3)),
    Ev(uidA, nameC, extC, sLogin, Bool(TRUE), TsOf(1)),
    Ev(Undefined, nameA, extC, sLogin, Bool(TRUE), TsOf(1)),
    Ev(uidA, Undefined, extC, sLogin, Bool(TRUE), TsOf(1)),
    Ev(uidA, nameA, Undefined, sLogoff, Bool(TRUE), TsOf(3)),
    NullEvent }

\* one agent, every combination of state and enabled
ClassStates ==
  {sLogin, sLOGIN, sLogins, sLogoff, slogOFF, sAvailable, Str(<<>>),
   Undefined, Num(5)}
ClassEnabled == {Bool(TRUE), Bool(FALSE), sTrue, Undefined}
ClassEvents ==
  { Ev(uidU1, nameA, ext100, st, en, TsOf(1)) :
      st \in ClassStates, en \in ClassEnabled }

\* two agents, events that match and events that do not match the availability
\* filter, equal timestamps, a missing Timestamp, a state that is a number
CallEvents ==
  { Ev(uidU1, nameA, ext100, sAvailable, Bool(TRUE), TsOf(2)),
    Ev(uidU1, nameA, ext100, sLogoff, Bool(TRUE), TsOf(1)),
    Relabel(Ev(uidA, nameB, extC, sAVAILABLE, Bool(TRUE), TsOf(2)), labelLogin),
    Ev(uidA, nameB, extC, sLogin, Bool(TRUE), TsOf(3)),
    Ev(uidU1, nameA, ext100, sAvailable, Bool(FALSE), TsOf(1)),
    Ev(uidU1, nameA, ext100, slogOFF, Bool(TRUE), Undefined),
    Ev(uidU1, nameA, ext100, Num(5), Bool(TRUE), TsOf(1)),
    Ev(Undefined, nameA, ext100, sAvailable, Bool(TRUE), TsOf(1)),
    Ev(uidU1, nameA, ext100, sAvailable, sTrue, TsOf(3)),
    Ev(uidU1, nameA, ext100, Undefined, Bool(TRUE), TsOf(2)),
    NullEvent }

SeqsUpTo(S, n) == UNION { [1..k -> S] : k \in 0..n }

CallInputs == SeqsUpTo(CallEvents, MaxCallLen)

Inputs ==
  SeqsUpTo(TimeEvents, MaxLen) \cup SeqsUpTo(IdentEvents, MaxLen)
    \cup SeqsUpTo(ClassEvents, MaxClassLen)

\* ------------------------------------------- getAgentLoginLogoffTimes
VARIABLES events, sortChoice, pc, agentData, results,
          input0, calls, prevOutcome, fpc, avail, prevAvail,
          req, res, statusData, loginLogoffData,
          epc, pageSize, baseIdx, endpointIdx, attempt, response,
          successfulBaseUrl, successfulEndpoint, allRecords, currentStartKey,
          spc, numPages, pageRows, statusAttempt, delay, records, startKey,
          returned, waited, failedAt,
          cache, clock, tpc, tenant, now, candidateIdx, tokenAttempt, sent,
          access, cacheAtCall, tokenCalls, issued,
          agentStateChanges, inFlight, upstreamNow, observed,
          payloadShape, entryKey, upstreamRow, chunk
\* input0: the array as the caller passed it; calls: the calls made after the
\* first; prevOutcome, prevAvail: what the previous call of each function gave
callVars == <<input0, calls, prevOutcome>>
filterVars == <<fpc, avail, prevAvail>>
\* req: the request a route handler took; res: what it answered; statusData,
\* loginLogoffData: the handler's locals of those names
routeVars == <<req, res, statusData, loginLogoffData>>
\* fetchAgentEvents: epc is its position; baseIdx, endpointIdx and attempt are
\* the three loop indices; the others are its locals of those names
fetchVars == <<epc, pageSize, baseIdx, endpointIdx, attempt, response,
               successfulBaseUrl, successfulEndpoint, allRecords,
               currentStartKey>>
\* fetchAgentStatus: spc is its position; numPages and pageRows are the
\* upstream's report; statusAttempt, delay, records and startKey are the
\* locals attempt, delay, records and startKey; returned holds the array the
\* call returned; waited lists the delays slept and failedAt the pages whose
\* request failed
statusVars == <<spc, numPages, pageRows, statusAttempt, delay, records,
                startKey, returned, waited, failedAt>>
\* tokenService.js: cache is the module's Map, clock is Date.now(); tpc is
\* the position of the getPortalToken call in progress, tenant and now its
\* parameter and its const now, candidateIdx and tokenAttempt its two loop
\* indices, access what it returned; sent lists the candidates it posted to,
\* cacheAtCall is the cache when it was called, tokenCalls counts the calls
\* made and issued the tokens the upstream has issued
tokenVars == <<cache, clock, tpc, tenant, now, candidateIdx, tokenAttempt,
               sent, access, cacheAtCall, tokenCalls, issued>>
\* index.html: agentStateChanges is the Map of that name; inFlight holds the
\* state-change PUT requests the upstream has answered and whose response the
\* server has not handled yet; upstreamNow is the upstream's clock, which
\* stamps the Date header; observed lists every AVAILABLE change whose
\* response the server handled, with the key it was filed under
trackVars == <<agentStateChanges, inFlight, upstreamNow, observed>>
\* fetchAgentStatus, lines 235-251: payloadShape says whether the page came
\* as a data array or as an object keyed by extension, upstreamRow is one
\* record of it and entryKey its key in the object; chunk is the local chunk
extVars == <<payloadShape, entryKey, upstreamRow, chunk>>
ioVars == <<fetchVars, statusVars, tokenVars, trackVars, extVars>>
coreVars == <<events, sortChoice, pc, agentData, results, callVars, filterVars,
              routeVars>>
vars == <<coreVars, ioVars>>

\* let response: nothing received yet
NoResponse == [body |-> "none", len |-> 0, key |-> Null, stale |-> FALSE]

NoFetchYet ==
  /\ epc = "idle"
  /\ pageSize = Undefined
  /\ baseIdx = 1
  /\ endpointIdx = 1
  /\ attempt = 0
  /\ response = NoResponse
  /\ successfulBaseUrl = 0
  /\ successfulEndpoint = 0
  /\ allRecords = <<>>
  /\ currentStartKey = Undefined

StatusIdle ==
  /\ spc = "idle"
  /\ statusAttempt = 0
  /\ delay = 1000
  /\ records = <<>>
  /\ startKey = 0
  /\ returned = <<>>
  /\ waited = <<>>
  /\ failedAt = <<>>

NoStatusYet == StatusIdle /\ numPages = 1 /\ pageRows = 1

NoTokenYet ==
  /\ cache = <<>>
  /\ clock = 0
  /\ tpc = "idle"
  /\ tenant = Undefined
  /\ now = 0
  /\ candidateIdx = 1
  /\ tokenAttempt = 0
  /\ sent = <<>>
  /\ access = Undefined
  /\ cacheAtCall = <<>>
  /\ tokenCalls = 0
  /\ issued = 0

NoTrackYet ==
  /\ agentStateChanges = <<>>
  /\ inFlight = {}
  /\ upstreamNow = 1
  /\ observed = {}

\* an upstream record with none of the five identity fields
BareRow ==
  [extension |-> Undefined, ext |-> Undefined, userId |-> Undefined,
   user_id |-> Undefined, id |-> Undefined]

NoExtYet ==
  /\ payloadShape = "array"
  /\ entryKey = <<>>
  /\ upstreamRow = BareRow
  /\ chunk = <<>>

NoIoYet ==
  NoFetchYet /\ NoStatusYet /\ NoTokenYet /\ NoTrackYet /\ NoExtYet

\* variant of isDropped that forgets the ext test
isDroppedNoExt(event) ==
  \/ event.isNull
  \/ ~Truthy(event.user_id)
  \/ ~Truthy(event.username)

\* if (!event || !event.user_id || !event.username || !event.ext) return;
isDropped(event) ==
  \/ event.isNull
  \/ ~Truthy(event.user_id)
  \/ ~Truthy(event.username)
  \/ ~Truthy(event.ext)

\* string conversion of a template literal substitution
ToStringChars(v) ==
  CASE v.t = "string" -> v.s
    [] v.t = "undefined" -> <<"u", "n", "d", "e", "f", "i", "n", "e", "d">>
    [] v.t = "null" -> <<"n", "u", "l", "l">>
    [] v.t = "boolean" ->
         IF v.b THEN <<"t", "r", "u", "e">> ELSE <<"f", "a", "l", "s", "e">>
    [] v.t = "number" -> IF v.n < 10 THEN <<Digit(v.n)>> ELSE FourDigit(v.n)

\* const agentKey = `${event.user_id}_${event.ext}`;
agentKeyOf(event) ==
  ToStringChars(event.user_id) \o <<"_">> \o ToStringChars(event.ext)

\* the object stored by agentData.set for a key seen for the first time
newAgent(event) ==
  [user_id |-> event.user_id, username |-> event.username, ext |-> event.ext,
   firstLoginTime |-> Null, firstLoginTimestamp |-> Null,
   lastLogoffTime |-> Null, lastLogoffTimestamp |-> Null,
   loginEvents |-> <<>>, logoffEvents |-> <<>>]

\* event.state.toLowerCase() is called when event.state is truthy; a truthy
\* state that is not a string has no toLowerCase and the call raises TypeError
stateThrows(event) == Truthy(event.state) /\ event.state.t # "string"

\* variant of isLoginEvent with a truthiness test of enabled
isLoginEventTruthyEnabled(event) ==
  /\ Truthy(event.state)
  /\ event.state.t = "string"
  /\ toLowerCase(event.state.s) = <<"l", "o", "g", "i", "n">>
  /\ Truthy(event.enabled)

\* variant of isLoginEvent without the test of enabled
isLoginEventAnyEnabled(event) ==
  /\ Truthy(event.state)
  /\ event.state.t = "string"
  /\ toLowerCase(event.state.s) = <<"l", "o", "g", "i", "n">>

isLoginEvent(event) ==
  /\ Truthy(event.state)
  /\ event.state.t = "string"
  /\ toLowerCase(event.state.s) = <<"l", "o", "g", "i", "n">>
  /\ event.enabled = Bool(TRUE)

\* variant of isLogoffEvent that also wants a truthy Timestamp
isLogoffEventNeedsTimestamp(event) ==
  /\ Truthy(event.state)
  /\ event.state.t = "string"
  /\ toLowerCase(event.state.s) = <<"l", "o", "g", "o", "f", "f">>
  /\ event.enabled = Bool(TRUE)
  /\ Truthy(event.Timestamp)

isLogoffEvent(event) ==
  /\ Truthy(event.state)
  /\ event.state.t = "string"
  /\ toLowerCase(event.state.s) = <<"l", "o", "g", "o", "f", "f">>
  /\ event.enabled = Bool(TRUE)

\* the element pushed onto loginEvents / logoffEvents
markerOf(event) ==
  [timestamp |-> event.Timestamp,
   timestampIST |-> toLocaleStringIST(event.Timestamp)]

hasKey(ad, key) == \E i \in 1..Len(ad) : ad[i].key = key

\* agentData after the has/set of one callback
withGroup(ad, event) ==
  IF hasKey(ad, agentKeyOf(event))
  THEN ad
  ELSE Append(ad, [key |-> agentKeyOf(event), agent |-> newAgent(event)])

\* variant of processEvent in which every event rewrites the username
processEventOverwrite(ad, event) ==
  IF isDropped(event)
  THEN ad
  ELSE LET ad1 == withGroup(ad, event)
           i == CHOOSE j \in 1..Len(ad1) : ad1[j].key = agentKeyOf(event)
       IN [ad1 EXCEPT
             ![i].agent.username = event.username,
             ![i].agent.loginEvents =
                IF isLoginEvent(event) THEN Append(@, markerOf(event)) ELSE @,
             ![i].agent.logoffEvents =
                IF isLogoffEvent(event) THEN Append(@, markerOf(event)) ELSE @]

\* one callback of events.forEach that does not raise
processEvent(ad, event) ==
  IF isDropped(event)
  THEN ad
  ELSE LET ad1 == withGroup(ad, event)
           i == CHOOSE j \in 1..Len(ad1) : ad1[j].key = agentKeyOf(event)
       IN [ad1 EXCEPT
             ![i].agent.loginEvents =
                IF isLoginEvent(event) THEN Append(@, markerOf(event)) ELSE @,
             ![i].agent.logoffEvents =
                IF isLogoffEvent(event) THEN Append(@, markerOf(event)) ELSE @]

\* events.forEach(...): the callbacks in input order, ended by the first raise
RECURSIVE forEachLoop(_, _, _)
forEachLoop(evs, i, ad) ==
  IF i > Len(evs)
  THEN [threw |-> FALSE, agentData |-> ad]
  ELSE IF ~isDropped(evs[i]) /\ stateThrows(evs[i])
       THEN [threw |-> TRUE, agentData |-> withGroup(ad, evs[i])]
       ELSE forEachLoop(evs, i + 1, processEvent(ad, evs[i]))

\* (a, b) => a.timestamp - b.timestamp, or b.timestamp - a.timestamp; a
\* result of NaN (an operand that is not a number) is taken as +0 by sort
compareFn(a, b, descending) ==
  IF a.timestamp.t = "number" /\ b.timestamp.t = "number"
  THEN IF descending
       THEN b.timestamp.n - a.timestamp.n
       ELSE a.timestamp.n - b.timestamp.n
  ELSE 0

\* the comparator is not a consistent ordering of the list: an element without
\* a numeric timestamp compares equal to two elements that differ
inconsistentCompare(list) ==
  /\ \E i \in 1..Len(list) : list[i].timestamp.t # "number"
  /\ \E i, j \in 1..Len(list) :
       /\ list[i].timestamp.t = "number"
       /\ list[j].timestamp.t = "number"
       /\ list[i].timestamp.n # list[j].timestamp.n

\* x placed after every element that does not compare greater than it
insertStable(sorted, x, descending) ==
  LET before == { j \in 1..Len(sorted) : compareFn(sorted[j], x, descending) <= 0 }
      k == IF before = {} THEN 0
           ELSE CHOOSE j \in before : \A m \in before : m <= j
  IN SubSeq(sorted, 1, k) \o <<x>> \o SubSeq(sorted, k + 1, Len(sorted))

RECURSIVE stableSort(_, _)
stableSort(list, descending) ==
  IF Len(list) <= 1
  THEN list
  ELSE insertStable(stableSort(SubSeq(list, 1, Len(list) - 1), descending),
                    list[Len(list)], descending)

\* Array.prototype.sort: stable for a consistent comparator; for an
\* inconsistent one the order is implementation-defined, and the element the
\* engine leaves in front is the one picked by choice
arraySort(list, descending, choice) ==
  IF inconsistentCompare(list)
  THEN LET c == ((choice - 1) % Len(list)) + 1
       IN <<list[c]>> \o SubSeq(list, 1, c - 1) \o SubSeq(list, c + 1, Len(list))
  ELSE stableSort(list, descending)

\* one callback of agentData.forEach, the two arrays deleted at its end
reduceAgent(agent, choice) ==
  LET logins == arraySort(agent.loginEvents, FALSE, choice)
      logoffs == arraySort(agent.logoffEvents, TRUE, choice)
  IN [user_id |-> agent.user_id, username |-> agent.username, ext |-> agent.ext,
      firstLoginTime |->
        IF Len(logins) > 0 THEN logins[1].timestampIST ELSE agent.firstLoginTime,
      firstLoginTimestamp |->
        IF Len(logins) > 0 THEN logins[1].timestamp ELSE agent.firstLoginTimestamp,
      lastLogoffTime |->
        IF Len(logoffs) > 0 THEN logoffs[1].timestampIST ELSE agent.lastLogoffTime,
      lastLogoffTimestamp |->
        IF Len(logoffs) > 0 THEN logoffs[1].timestamp ELSE agent.lastLogoffTimestamp]

\* Array.from(agentData.values()) after the reduction
summariesOf(ad, choice) ==
  [i \in 1..Len(ad) |-> reduceAgent(ad[i].agent, choice)]

\* the whole call: its result, or threw when a callback raised
getAgentLoginLogoffTimes(evs, choice) ==
  LET g == forEachLoop(evs, 1, <<>>)
  IN [threw |-> g.threw,
      results |-> IF g.threw THEN <<>> ELSE summariesOf(g.agentData, choice)]

\* the engine's choice matters only to a batch with an inconsistent sort
needsChoice(evs) ==
  LET g == forEachLoop(evs, 1, <<>>)
  IN \E i \in 1..Len(g.agentData) :
       \/ inconsistentCompare(g.agentData[i].agent.loginEvents)
       \/ inconsistentCompare(g.agentData[i].agent.logoffEvents)

\* no call made yet
NoCoreCallYet ==
  /\ pc = "start"
  /\ agentData = <<>>
  /\ results = <<>>
  /\ input0 = events
  /\ calls = 0
  /\ prevOutcome = <<>>
  /\ fpc = "idle"
  /\ avail = <<>>
  /\ prevAvail = <<>>
  /\ req = [route |-> "none", query |-> <<>>, status |-> "notCalled",
            fetch |-> "notCalled"]
  /\ res = [status |-> 0, data |-> <<>>, error |-> FALSE]
  /\ statusData = <<>>
  /\ loginLogoffData = <<>>

NoCallYet == NoCoreCallYet /\ NoIoYet

Init ==
  /\ events \in Inputs
  /\ sortChoice \in (IF needsChoice(events) THEN 1..MaxLen ELSE {1})
  /\ NoCallYet

\* variant of Group that also reverses the caller's array
GroupReversingInput ==
  /\ pc = "start"
  /\ LET g == forEachLoop(events, 1, <<>>)
     IN /\ agentData' = g.agentData
        /\ pc' = IF g.threw THEN "threw" ELSE "grouped"
  /\ events' = [i \in 1..Len(events) |-> events[Len(events) + 1 - i]]
  /\ UNCHANGED <<sortChoice, results, callVars, filterVars, routeVars, ioVars>>

\* lines 204-259: group the events by agent key and collect the markers
Group ==
  /\ pc = "start"
  /\ LET g == forEachLoop(events, 1, <<>>)
     IN /\ agentData' = g.agentData
        /\ pc' = IF g.threw THEN "threw" ELSE "grouped"
  /\ UNCHANGED <<events, sortChoice, results, callVars, filterVars, routeVars, ioVars>>

\* lines 262-296: reduce each group and return the summaries
Reduce ==
  /\ pc = "grouped"
  /\ results' = summariesOf(agentData, sortChoice)
  /\ agentData' = [i \in 1..Len(agentData) |->
                     [key |-> agentData[i].key,
                      agent |-> reduceAgent(agentData[i].agent, sortChoice)]]
  /\ pc' = "done"
  /\ UNCHANGED <<events, sortChoice, callVars, filterVars, routeVars, ioVars>>

Next == Group \/ Reduce

Spec == Init /\ [][Next]_vars

\* ------------------------------------------------- vocabulary of the claims
\* an event that is null or lacks user_id, username or ext
Lacks(e) ==
  \/ e.isNull
  \/ e.user_id = Undefined
  \/ e.username = Undefined
  \/ e.ext = Undefined

\* the agent key of the specification: the pair (user_id, ext)
PairOf(e) == <<e.user_id, e.ext>>

UpperOf(c) ==
  CASE c = "l" -> "L" [] c = "o" -> "O" [] c = "g" -> "G" [] c = "i" -> "I"
    [] c = "n" -> "N" [] c = "f" -> "F" [] c = "a" -> "A" [] c = "v" -> "V"
    [] c = "b" -> "B" [] c = "e" -> "E" [] c = "s" -> "S" [] OTHER -> c

SameIgnoringCase(chars, word) ==
  /\ Len(chars) = Len(word)
  /\ \A i \in 1..Len(word) : chars[i] = word[i] \/ chars[i] = UpperOf(word[i])

IsLoginMarker(e) ==
  /\ ~e.isNull
  /\ e.state.t = "string"
  /\ SameIgnoringCase(e.state.s, <<"l", "o", "g", "i", "n">>)
  /\ e.enabled.t = "boolean" /\ e.enabled.b

IsLogoffMarker(e) ==
  /\ ~e.isNull
  /\ e.state.t = "string"
  /\ SameIgnoringCase(e.state.s, <<"l", "o", "g", "o", "f", "f">>)
  /\ e.enabled.t = "boolean" /\ e.enabled.b

KeptIdx(evs) == { i \in 1..Len(evs) : ~Lacks(evs[i]) }
PairsOf(evs) == { PairOf(evs[i]) : i \in KeptIdx(evs) }
LoginIdx(evs, p) ==
  { i \in KeptIdx(evs) : PairOf(evs[i]) = p /\ IsLoginMarker(evs[i]) }
LogoffIdx(evs, p) ==
  { i \in KeptIdx(evs) : PairOf(evs[i]) = p /\ IsLogoffMarker(evs[i]) }
NumericTs(evs, I) ==
  { evs[i].Timestamp.n : i \in { j \in I : evs[j].Timestamp.t = "number" } }
SummaryIdx(p) ==
  { k \in 1..Len(results) : <<results[k].user_id, results[k].ext>> = p }

\* C1: when the call has returned, every agent key (user_id, ext) with a login
\* marker that carries a Timestamp has a summary, and the firstLoginTimestamp
\* of that summary is the minimum Timestamp over the key's login markers.
C1_FirstLoginIsMinimum ==
  pc = "done" =>
    \A p \in PairsOf(events) :
      LET ts == NumericTs(events, LoginIdx(events, p))
      IN ts # {} =>
           /\ SummaryIdx(p) # {}
           /\ \A k \in SummaryIdx(p) :
                /\ results[k].firstLoginTimestamp.t = "number"
                /\ results[k].firstLoginTimestamp.n \in ts
                /\ \A v \in ts : results[k].firstLoginTimestamp.n <= v

\* C2: when the call has returned, every agent key (user_id, ext) with a
\* logoff marker that carries a Timestamp has a summary, and the
\* lastLogoffTimestamp of that summary is the maximum Timestamp over the
\* key's logoff markers.
C2_LastLogoffIsMaximum ==
  pc = "done" =>
    \A p \in PairsOf(events) :
      LET ts == NumericTs(events, LogoffIdx(events, p))
      IN ts # {} =>
           /\ SummaryIdx(p) # {}
           /\ \A k \in SummaryIdx(p) :
                /\ results[k].lastLogoffTimestamp.t = "number"
                /\ results[k].lastLogoffTimestamp.n \in ts
                /\ \A v \in ts : results[k].lastLogoffTimestamp.n >= v

\* the markers held by the groups after the forEach loop
LoginSlots(ad) ==
  UNION { { <<i, j>> : j \in 1..Len(ad[i].agent.loginEvents) } : i \in 1..Len(ad) }
LogoffSlots(ad) ==
  UNION { { <<i, j>> : j \in 1..Len(ad[i].agent.logoffEvents) } : i \in 1..Len(ad) }

RemoveIdx(evs, S) ==
  LET F[i \in 0..Len(evs)] ==
        IF i = 0 THEN <<>>
        ELSE IF i \in S THEN F[i - 1] ELSE Append(F[i - 1], evs[i])
  IN F[Len(evs)]

\* what the finished call gave: the summaries, or a raise
Outcome == [threw |-> pc = "threw", results |-> results]

DisabledLogin(e) ==
  /\ ~e.isNull
  /\ e.state.t = "string"
  /\ SameIgnoringCase(e.state.s, <<"l", "o", "g", "i", "n">>)
  /\ e.enabled = Bool(FALSE)

DisabledLoginIdx(evs) == { i \in 1..Len(evs) : DisabledLogin(evs[i]) }

\* an index that is not the first non-dropped event of its agent key
NotFirstOfKey(evs, i) ==
  \/ Lacks(evs[i])
  \/ \E j \in 1..(i - 1) : ~Lacks(evs[j]) /\ PairOf(evs[j]) = PairOf(evs[i])

\* C4 (as stated): removing any set of events with state "Login" (any case)
\* and enabled false leaves the output of the call unchanged, also when such
\* an event is the first or the only event of its agent key.
C4_DisabledLoginsAreInert ==
  pc \in {"done", "threw"} =>
    \A S \in SUBSET DisabledLoginIdx(events) :
      getAgentLoginLogoffTimes(RemoveIdx(events, S), sortChoice) = Outcome

\* C4 (amended): removing any set of events with state "Login" (any case) and
\* enabled false, none of which is the first non-dropped event of its agent
\* key, leaves the output of the call unchanged.
C4_DisabledLoginsAfterFirstAreInert ==
  pc \in {"done", "threw"} =>
    \A S \in SUBSET { i \in DisabledLoginIdx(events) : NotFirstOfKey(events, i) } :
      getAgentLoginLogoffTimes(RemoveIdx(events, S), sortChoice) = Outcome

C4_Witness ==
  /\ pc = "done"
  /\ \E i \in DisabledLoginIdx(events) :
       /\ ~Lacks(events[i])
       /\ NotFirstOfKey(events, i)
       /\ \E k \in SummaryIdx(PairOf(events[i])) :
            results[k].firstLoginTimestamp.t = "number"

\* C5: an event that is null or lacks user_id, username or ext creates no
\* agent group, and removing it from the input leaves the outcome of the call
\* (every summary and their order) unchanged.
C5_IncompleteEventsAreDropped ==
  /\ \A g \in 1..Len(agentData) :
       \E i \in KeptIdx(events) :
         PairOf(events[i]) = <<agentData[g].agent.user_id, agentData[g].agent.ext>>
  /\ pc \in {"done", "threw"} =>
       \A i \in 1..Len(events) :
         Lacks(events[i]) =>
           getAgentLoginLogoffTimes(RemoveIdx(events, {i}), sortChoice) = Outcome

C5_Witness ==
  /\ pc = "done"
  /\ \E i \in 1..Len(events) : Lacks(events[i]) /\ ~events[i].isNull
  /\ Len(results) = 2

\* the distinct pairs of the non-dropped events, in order of first appearance
FirstAppearance(evs) ==
  LET F[i \in 0..Len(evs)] ==
        IF i = 0 THEN <<>>
        ELSE IF Lacks(evs[i]) \/ (\E j \in 1..Len(F[i - 1]) : F[i - 1][j] = PairOf(evs[i]))
             THEN F[i - 1]
             ELSE Append(F[i - 1], PairOf(evs[i]))
  IN F[Len(evs)]

\* C6: the call returns exactly one summary for each distinct (user_id, ext)
\* pair among the non-dropped events, in the order of the first event of each
\* pair.
C6_OneSummaryPerPairInFirstAppearanceOrder ==
  pc = "done" =>
    [k \in 1..Len(results) |-> <<results[k].user_id, results[k].ext>>]
      = FirstAppearance(events)

\* C7: the user_id, username and ext of a summary are those of the first
\* non-dropped input event with that (user_id, ext); a later event of the same
\* key with another username does not change them.
C7_IdentityIsFirstSeen ==
  pc = "done" =>
    \A k \in 1..Len(results) :
      LET I == { i \in KeptIdx(events) :
                   PairOf(events[i]) = <<results[k].user_id, results[k].ext>> }
      IN /\ I # {}
         /\ \A i \in I :
              (\A j \in I : i <= j) => results[k].username = events[i].username

C7_Witness ==
  /\ pc = "done"
  /\ \E i, j \in KeptIdx(events) :
       /\ i < j
       /\ PairOf(events[i]) = PairOf(events[j])
       /\ events[i].username # events[j].username
       /\ \E k \in SummaryIdx(PairOf(events[i])) :
            results[k].username = events[i].username

\* C8: a summary whose agent key has no login marker has firstLoginTime and
\* firstLoginTimestamp both null, and one whose key has no logoff marker has
\* lastLogoffTime and lastLogoffTimestamp both null.
C8_NoMarkerGivesAbsentTimes ==
  pc = "done" =>
    \A k \in 1..Len(results) :
      LET p == <<results[k].user_id, results[k].ext>>
      IN /\ LoginIdx(events, p) = {} =>
              /\ results[k].firstLoginTime = Null
              /\ results[k].firstLoginTimestamp = Null
         /\ LogoffIdx(events, p) = {} =>
              /\ results[k].lastLogoffTime = Null
              /\ results[k].lastLogoffTimestamp = Null

Present(v) == v.t \notin {"null", "undefined"}

\* C9: in every summary the display string and the epoch value of a field are
\* present together or absent together, and a present epoch value is the
\* Timestamp of one of that agent's own marker events of that kind.
C9_DisplayAndEpochGoTogether ==
  pc = "done" =>
    \A k \in 1..Len(results) :
      LET p == <<results[k].user_id, results[k].ext>>
      IN /\ Present(results[k].firstLoginTime) <=> Present(results[k].firstLoginTimestamp)
         /\ Present(results[k].lastLogoffTime) <=> Present(results[k].lastLogoffTimestamp)
         /\ Present(results[k].firstLoginTimestamp) =>
              \E i \in LoginIdx(events, p) :
                events[i].Timestamp = results[k].firstLoginTimestamp
         /\ Present(results[k].lastLogoffTimestamp) =>
              \E i \in LogoffIdx(events, p) :
                events[i].Timestamp = results[k].lastLogoffTimestamp

NoTimestamp(v) == v = Undefined \/ v = Num(0)

\* C10: a login or logoff marker whose Timestamp is missing or 0 is rejected
\* before the display conversion: no collected marker has such a timestamp and
\* no summary carries one as firstLoginTimestamp or lastLogoffTimestamp.
C10_AbsentTimestampIsRejected ==
  /\ pc = "grouped" =>
       /\ \A x \in LoginSlots(agentData) :
            ~NoTimestamp(agentData[x[1]].agent.loginEvents[x[2]].timestamp)
       /\ \A x \in LogoffSlots(agentData) :
            ~NoTimestamp(agentData[x[1]].agent.logoffEvents[x[2]].timestamp)
  /\ pc = "done" =>
       \A k \in 1..Len(results) :
         /\ ~NoTimestamp(results[k].firstLoginTimestamp)
         /\ ~NoTimestamp(results[k].lastLogoffTimestamp)

\* C11: for an input that is an array the call never raises, whatever the
\* elements are.
C11_NeverRaises == pc # "threw"

\* the input with the element at index i replaced by e
ReplaceAt(evs, i, e) == [evs EXCEPT ![i] = e]

\* events that agree with e on state (up to case) and on enabled, and differ
\* in event label, Timestamp, username, agent key, or the case of state
VariantsOf(e) ==
  { Relabel(e, labelLogin),
    [e EXCEPT !.Timestamp = Undefined],
    [e EXCEPT !.Timestamp = TsOf(1)],
    [e EXCEPT !.username = nameC],
    [e EXCEPT !.user_id = uidA, !.ext = extC],
    [e EXCEPT !.state = IF @.t = "string"
                        THEN Str([i \in 1..Len(@.s) |-> UpperOf(@.s[i])])
                        ELSE @] }

\* C12: classification depends only on state (up to case) and enabled:
\* replacing a non-dropped event of the batch by one that agrees with it on
\* both and differs in label, Timestamp, username, key or letter case leaves
\* the numbers of login and of logoff markers collected unchanged; and no
\* event is collected as both, so the markers never outnumber the events.
C12_ClassificationDependsOnStateAndEnabled ==
  pc = "grouped" =>
    /\ Cardinality(LoginSlots(agentData)) + Cardinality(LogoffSlots(agentData))
         <= Cardinality(KeptIdx(events))
    /\ \A i \in KeptIdx(events) :
         \A e \in VariantsOf(events[i]) :
           LET g == forEachLoop(ReplaceAt(events, i, e), 1, <<>>)
           IN /\ ~g.threw
              /\ Cardinality(LoginSlots(g.agentData))
                   = Cardinality(LoginSlots(agentData))
              /\ Cardinality(LogoffSlots(g.agentData))
                   = Cardinality(LogoffSlots(agentData))

C12_Witness ==
  /\ pc = "grouped"
  /\ Cardinality(LoginSlots(agentData)) = 1
  /\ Cardinality(LogoffSlots(agentData)) = 1
  /\ \E i \in KeptIdx(events) :
       /\ IsLogoffMarker(events[i])
       /\ events[i].Timestamp # Undefined
       /\ events[i].state = sLogoff

\* ------------------------------------------- getAvailableStateTimestamps
\* variant of matchesFilter with a truthiness test of enabled
matchesFilterTruthyEnabled(event) ==
  /\ ~event.isNull
  /\ Truthy(event.state)
  /\ event.state.t = "string"
  /\ \/ toLowerCase(event.state.s) = <<"a", "v", "a", "i", "l", "a", "b", "l", "e">>
     \/ toLowerCase(event.state.s) = <<"l", "o", "g", "o", "f", "f">>
  /\ Truthy(event.enabled)

\* the predicate of events.filter at lines 126-131
matchesFilter(event) ==
  /\ ~event.isNull
  /\ Truthy(event.state)
  /\ event.state.t = "string"
  /\ \/ toLowerCase(event.state.s) = <<"a", "v", "a", "i", "l", "a", "b", "l", "e">>
     \/ toLowerCase(event.state.s) = <<"l", "o", "g", "o", "f", "f">>
  /\ event.enabled = Bool(TRUE)

\* the predicate raises on the first element with a truthy state that is not
\* a string, and the call with it
filterThrows(evs) ==
  \E i \in 1..Len(evs) : ~evs[i].isNull /\ stateThrows(evs[i])

\* the object built by targetEvents.map at lines 159-177
recordOf(event) ==
  [username |-> event.username, ext |-> event.ext, user_id |-> event.user_id,
   event |-> event.event, state |-> event.state, timestamp |-> event.Timestamp,
   timestampIST |-> toLocaleStringIST(event.Timestamp),
   enabled |-> event.enabled]

\* the whole call: the sorted records, or threw
getAvailableStateTimestamps(evs, choice) ==
  LET targetEvents == SelectSeq(evs, matchesFilter)
      mapped == [i \in 1..Len(targetEvents) |-> recordOf(targetEvents[i])]
  IN [threw |-> filterThrows(evs),
      results |-> IF filterThrows(evs) THEN <<>>
                  ELSE arraySort(mapped, FALSE, choice)]

filterNeedsChoice(evs) ==
  LET targetEvents == SelectSeq(evs, matchesFilter)
  IN /\ ~filterThrows(evs)
     /\ inconsistentCompare([i \in 1..Len(targetEvents) |-> recordOf(targetEvents[i])])

\* what the last call of each function gave
FilterOutcome == [threw |-> fpc = "threw", results |-> avail]

InitCalls ==
  /\ events \in CallInputs
  /\ sortChoice \in (IF needsChoice(events) \/ filterNeedsChoice(events)
                     THEN 1..MaxCallLen ELSE {1})
  /\ NoCallYet

\* variant of Filter that filters the input array in place
FilterInPlace ==
  /\ pc \in {"start", "done", "threw"}
  /\ calls < MaxCalls
  /\ LET r == getAvailableStateTimestamps(events, sortChoice)
     IN /\ avail' = r.results
        /\ fpc' = IF r.threw THEN "threw" ELSE "done"
        /\ events' = IF r.threw THEN events ELSE SelectSeq(events, matchesFilter)
  /\ prevAvail' = IF fpc = "idle" THEN <<>> ELSE <<FilterOutcome>>
  /\ calls' = calls + 1
  /\ UNCHANGED <<sortChoice, pc, agentData, results, input0, prevOutcome,
               routeVars, ioVars>>

\* one call of getAvailableStateTimestamps(events), lines 121-193; the calls
\* are synchronous, so it runs before or after a call of the extraction
Filter ==
  /\ pc \in {"start", "done", "threw"}
  /\ calls < MaxCalls
  /\ LET r == getAvailableStateTimestamps(events, sortChoice)
     IN /\ avail' = r.results
        /\ fpc' = IF r.threw THEN "threw" ELSE "done"
  /\ prevAvail' = IF fpc = "idle" THEN <<>> ELSE <<FilterOutcome>>
  /\ calls' = calls + 1
  /\ UNCHANGED <<events, sortChoice, pc, agentData, results, input0, prevOutcome,
               routeVars, ioVars>>

\* the caller invokes getAgentLoginLogoffTimes once more on the same array:
\* a new Map (line 204) and nothing else carried over
Again ==
  /\ pc \in {"done", "threw"}
  /\ calls < MaxCalls
  /\ prevOutcome' = <<Outcome>>
  /\ pc' = "start"
  /\ agentData' = <<>>
  /\ results' = <<>>
  /\ calls' = calls + 1
  /\ UNCHANGED <<events, sortChoice, input0, filterVars, routeVars, ioVars>>

NextCalls == Group \/ Reduce \/ Again \/ Filter

SpecCalls == InitCalls /\ [][NextCalls]_vars

\* ------------------------------------------------------ claims C13-C16
IsSelected(e) ==
  /\ ~e.isNull
  /\ e.state.t = "string"
  /\ \/ SameIgnoringCase(e.state.s, <<"a", "v", "a", "i", "l", "a", "b", "l", "e">>)
     \/ SameIgnoringCase(e.state.s, <<"l", "o", "g", "o", "f", "f">>)
  /\ e.enabled = Bool(TRUE)

SelectedIdx(evs) == { i \in 1..Len(evs) : IsSelected(evs[i]) }

Carries(r, e) ==
  /\ r.username = e.username
  /\ r.ext = e.ext
  /\ r.user_id = e.user_id
  /\ r.event = e.event
  /\ r.state = e.state
  /\ r.timestamp = e.Timestamp
  /\ r.enabled = e.enabled

Rank(M, i) ==
  Cardinality({ j \in 1..Len(M) : M[j].Timestamp.n < M[i].Timestamp.n })
    + Cardinality({ j \in 1..(i - 1) : M[j].Timestamp.n = M[i].Timestamp.n })
    + 1

\* C14: when getAvailableStateTimestamps has returned, a record never comes
\* after a record with a larger timestamp, and when every selected event has
\* a Timestamp the records are the selected events in ascending Timestamp
\* order with equal Timestamps in input order.
C14_AscendingAndStable ==
  fpc = "done" =>
    LET M == SelectSeq(events, IsSelected)
    IN /\ \A a, b \in 1..Len(avail) :
            (a < b /\ avail[a].timestamp.t = "number"
                   /\ avail[b].timestamp.t = "number")
              => avail[a].timestamp.n <= avail[b].timestamp.n
       /\ (\A i \in 1..Len(M) : M[i].Timestamp.t = "number")
            => /\ Len(avail) = Len(M)
               /\ \A i \in 1..Len(M) : Carries(avail[Rank(M, i)], M[i])

C16_CallsLeaveInputAndKeepNoState ==
  /\ events = input0
  /\ (fpc # "idle" /\ prevAvail # <<>>) => FilterOutcome = prevAvail[1]
  /\ (pc \in {"done", "threw"} /\ prevOutcome # <<>> /\ fpc # "idle")
       => Outcome = prevOutcome[1]
  /\ (pc = "done" /\ fpc = "done")
       => \A k \in 1..Len(results) :
            \E i \in KeptIdx(input0) : results[k].user_id = input0[i].user_id

C16_Witness ==
  /\ pc = "done"
  /\ fpc = "done"
  /\ prevAvail # <<>>
  /\ Len(avail) >= 2
  /\ Len(results) >= 1
  /\ \E i \in 1..Len(events) : ~IsSelected(events[i])

\* ---------------------------------------------------------- claim C17
\* the markers of a list, each with the place it has in push order, which is
\* the input order of its event
Tagged(list) ==
  [j \in 1..Len(list) |->
     [timestamp |-> list[j].timestamp, timestampIST |-> list[j].timestampIST,
      pos |-> j]]

NumericPos(list) == { j \in 1..Len(list) : list[j].timestamp.t = "number" }

\* the places holding the least (greatest when descending) Timestamp
ExtremePos(list, descending) ==
  { j \in NumericPos(list) :
      \A k \in NumericPos(list) :
        IF descending THEN list[k].timestamp.n <= list[j].timestamp.n
        ELSE list[j].timestamp.n <= list[k].timestamp.n }

FirstOf(S) == CHOOSE j \in S : \A k \in S : j <= k

\* the place, in push order, of the marker that element 0 is after the sort
SelectedPos(list, descending) ==
  arraySort(Tagged(list), descending, sortChoice)[1].pos

\* C17: for every group whose login markers include several with the least
\* Timestamp, the marker taken as firstLogin is the earliest pushed of
\* these; for every group whose logoff markers include several with the
\* greatest Timestamp, the marker taken as lastLogoff is the earliest pushed
\* of these.
C17_TiesResolveToFirstInInputOrder ==
  pc = "grouped" =>
    \A i \in 1..Len(agentData) :
      LET li == agentData[i].agent.loginEvents
          lo == agentData[i].agent.logoffEvents
      IN /\ Cardinality(ExtremePos(li, FALSE)) >= 2
              => SelectedPos(li, FALSE) = FirstOf(ExtremePos(li, FALSE))
         /\ Cardinality(ExtremePos(lo, TRUE)) >= 2
              => SelectedPos(lo, TRUE) = FirstOf(ExtremePos(lo, TRUE))

\* ---------------------------------------------------------- claim C18
\* the civil time at UTC+5:30 written DD/MM/YYYY, HH:MM:SS
CivilForm(n) ==
  LET local == n + IstOffset
      date == CivilFromDays(local \div 86400)
      sod == local % 86400
  IN Str(TwoDigit(date.day) \o <<"/">> \o TwoDigit(date.month) \o <<"/">>
         \o FourDigit(date.year) \o <<",", " ">>
         \o TwoDigit(sod \div 3600) \o <<":">> \o TwoDigit((sod \div 60) % 60)
         \o <<":">> \o TwoDigit(sod % 60))

\* C18: in every summary returned, firstLoginTime is the civil time at
\* UTC+5:30 of firstLoginTimestamp written DD/MM/YYYY, HH:MM:SS, and
\* lastLogoffTime is that of lastLogoffTimestamp; the string depends on the
\* timestamp alone.
C18_DisplayIsCivilTimeAtFixedOffset ==
  pc = "done" =>
    \A k \in 1..Len(results) :
      /\ results[k].firstLoginTimestamp.t = "number"
           => results[k].firstLoginTime = CivilForm(results[k].firstLoginTimestamp.n)
      /\ results[k].lastLogoffTimestamp.t = "number"
           => results[k].lastLogoffTime = CivilForm(results[k].lastLogoffTimestamp.n)

\* ------------------------------------------------ server.js: the routes
NaN == [t |-> "nan", s |-> <<>>, n |-> 0, b |-> FALSE]

IsDigit(c) == c \in {"0", "1", "2", "3", "4", "5", "6", "7", "8", "9"}
DigitVal(c) == CHOOSE d \in 0..9 : Digit(d) = c

\* parseInt(string) for strings without blanks, sign or 0x prefix: the value
\* of the leading decimal digits, NaN when there is none
parseInt(v) ==
  LET F[i \in 0..Len(v.s)] ==
        IF i = 0 THEN [n |-> 0, open |-> TRUE]
        ELSE IF F[i - 1].open /\ IsDigit(v.s[i])
             THEN [n |-> F[i - 1].n * 10 + DigitVal(v.s[i]), open |-> TRUE]
             ELSE [n |-> F[i - 1].n, open |-> FALSE]
  IN IF v.t = "string" /\ Len(v.s) > 0 /\ IsDigit(v.s[1])
     THEN Num(F[Len(v.s)].n) ELSE NaN

sIsoDay == Str(<<"1", "9", "7", "0", "-", "0", "1", "-", "0", "2">>)
sBadDate == Str(<<"x">>)
sSeconds == Str(<<"1", "7">>)
sSecondsX == Str(<<"1", "x">>)
sEmpty == Str(<<>>)
sAccount == Str(<<"m", "c", "i", "n", "t">>)

\* Date.parse on the query strings used here: milliseconds for the ISO day,
\* NaN for a string that is no date
DateParse(v) == IF v = sIsoDay THEN Num(86400000) ELSE NaN

EventsQueries ==
  [account : {Undefined},
   start : {Undefined, sEmpty, sBadDate, sSeconds, sSecondsX},
   end : {Undefined, sEmpty, sBadDate, sSeconds, sSecondsX}]

AgentsQueries ==
  [account : {Undefined, sAccount},
   start : {Undefined, sBadDate, sIsoDay},
   end : {Undefined, sBadDate, sIsoDay}]

\* what the awaited upstream call does
FetchOutcomes == {"resolves", "rejects"}

\* records as fetchAgentStatus returns them
StatusRecords ==
  { [extension |-> ext100, name |-> nameA, total_calls |-> Num(7)],
    [extension |-> extC, name |-> nameB, total_calls |-> Num(0)],
    [extension |-> extC, name |-> nameA, total_calls |-> Num(1)],
    [extension |-> sEmpty, name |-> Undefined, total_calls |-> Num(3)] }

StatusInputs == SeqsUpTo(StatusRecords, MaxStatusLen)

RouteEvents ==
  { Ev(uidU1, nameA, ext100, sLogin, Bool(TRUE), TsOf(1)),
    Ev(uidU1, nameA, ext100, sLogoff, Bool(TRUE), TsOf(2)),
    Ev(uidA, nameA, extC, sLogoff, Bool(TRUE), TsOf(3)),
    Ev(uidA, nameB, extC, sLogin, Bool(TRUE), TsOf(2)),
    Ev(Undefined, nameA, ext100, Num(5), Bool(TRUE), TsOf(1)),
    Ev(uidU1, nameA, ext100, Num(5), Bool(TRUE), TsOf(1)),
    NullEvent }

RouteInputs == SeqsUpTo(RouteEvents, MaxRouteLen)

\* res.json(body), res.status(code).json({error})
jsonOk(data) == [status |-> 200, data |-> data, error |-> FALSE]
jsonError(code) == [status |-> code, data |-> <<>>, error |-> TRUE]

\* x || ''
orEmpty(v) == IF Truthy(v) THEN v ELSE sEmpty

\* variant of findLoginLogoff that matches on the extension alone
findLoginLogoffByExt(lld, agent) ==
  LET hits == { j \in 1..Len(lld) : lld[j].ext = agent.extension }
  IN IF hits = {} THEN <<>>
     ELSE <<lld[CHOOSE j \in hits : \A k \in hits : j <= k]>>

\* loginLogoffData.find(ll => ll.ext === agent.extension ||
\* ll.username === agent.name): the first hit, or none
findLoginLogoff(lld, agent) ==
  LET hits == { j \in 1..Len(lld) :
                  lld[j].ext = agent.extension \/ lld[j].username = agent.name }
  IN IF hits = {} THEN <<>>
     ELSE <<lld[CHOOSE j \in hits : \A k \in hits : j <= k]>>

\* the callback of statusData.map, lines 59-70
mergeAgent(agent, lld) ==
  LET info == findLoginLogoff(lld, agent)
  IN [extension |-> agent.extension, name |-> agent.name,
      total_calls |-> agent.total_calls,
      first_login_time |->
        IF info = <<>> THEN sEmpty ELSE orEmpty(info[1].firstLoginTime),
      last_logoff_time |->
        IF info = <<>> THEN sEmpty ELSE orEmpty(info[1].lastLogoffTime)]

\* lines 42-56: the summaries, or [] when the fetch or the extraction raised
loginLogoffOf(f, evs, choice) ==
  LET r == getAgentLoginLogoffTimes(evs, choice)
  IN IF f = "rejects" \/ r.threw THEN <<>> ELSE r.results

agentsQueryOk(q) ==
  /\ Truthy(q.account) /\ Truthy(q.start) /\ Truthy(q.end)
  /\ DateParse(q.start) # NaN
  /\ DateParse(q.end) # NaN

\* variant of agentsResponse in which a failed events fetch fails the route
agentsResponseFailingOnEvents(q, s, sd, f, evs, choice) ==
  IF ~agentsQueryOk(q) THEN jsonError(400)
  ELSE IF s = "rejects" \/ f = "rejects" THEN jsonError(500)
  ELSE jsonOk([k \in 1..Len(sd) |-> mergeAgent(sd[k], loginLogoffOf(f, evs, choice))])

\* GET /api/agents, lines 24-77: what it answers
agentsResponse(q, s, sd, f, evs, choice) ==
  IF ~agentsQueryOk(q) THEN jsonError(400)
  ELSE IF s = "rejects" THEN jsonError(500)
  ELSE jsonOk([k \in 1..Len(sd) |-> mergeAgent(sd[k], loginLogoffOf(f, evs, choice))])

eventsQueryOk(q) ==
  /\ Truthy(q.start) /\ Truthy(q.end)
  /\ parseInt(q.start) # NaN
  /\ parseInt(q.end) # NaN

\* variant of eventsResponse that answers 404 when there is no summary
eventsResponseNotFoundOnEmpty(q, f, evs, choice) ==
  IF ~eventsQueryOk(q) THEN jsonError(400)
  ELSE IF f = "rejects" \/ getAgentLoginLogoffTimes(evs, choice).threw
       THEN jsonError(500)
  ELSE IF getAgentLoginLogoffTimes(evs, choice).results = <<>>
       THEN jsonError(404)
  ELSE jsonOk(getAgentLoginLogoffTimes(evs, choice).results)

\* GET /api/events, lines 80-110: what it answers
eventsResponse(q, f, evs, choice) ==
  IF ~eventsQueryOk(q) THEN jsonError(400)
  ELSE IF f = "rejects" \/ getAgentLoginLogoffTimes(evs, choice).threw
       THEN jsonError(500)
  ELSE jsonOk(getAgentLoginLogoffTimes(evs, choice).results)

InitRoutes ==
  /\ events \in RouteInputs
  /\ sortChoice \in (IF needsChoice(events) THEN 1..MaxRouteLen ELSE {1})
  /\ NoCallYet

\* one request to GET /api/events; the upstream is not called when the query
\* is refused.  A handler keeps nothing for the next request, so a behaviour
\* holds one request.
GetApiEvents ==
  /\ req.route = "none"
  /\ \E q \in EventsQueries, f \in FetchOutcomes :
       /\ req' = [route |-> "events", query |-> q, status |-> "notCalled",
                  fetch |-> IF eventsQueryOk(q) THEN f ELSE "notCalled"]
       /\ res' = eventsResponse(q, f, events, sortChoice)
       /\ loginLogoffData' =
            IF eventsQueryOk(q) THEN loginLogoffOf(f, events, sortChoice)
            ELSE <<>>
  /\ statusData' = <<>>
  /\ UNCHANGED <<events, sortChoice, pc, agentData, results, callVars,
                 filterVars, ioVars>>

\* one request to GET /api/agents; fetchAgentEvents is awaited only after
\* fetchAgentStatus has resolved
GetApiAgents ==
  /\ req.route = "none"
  /\ \E q \in AgentsQueries, s \in FetchOutcomes, sd \in StatusInputs,
        f \in FetchOutcomes :
       LET called == agentsQueryOk(q)
           fetched == called /\ s = "resolves"
       IN /\ req' = [route |-> "agents", query |-> q,
                     status |-> IF called THEN s ELSE "notCalled",
                     fetch |-> IF fetched THEN f ELSE "notCalled"]
          /\ statusData' = IF fetched THEN sd ELSE <<>>
          /\ loginLogoffData' =
               IF fetched THEN loginLogoffOf(f, events, sortChoice) ELSE <<>>
          /\ res' = agentsResponse(q, s, sd, f, events, sortChoice)
  /\ UNCHANGED <<events, sortChoice, pc, agentData, results, callVars,
                 filterVars, ioVars>>

NextRoutes == GetApiEvents \/ GetApiAgents

SpecRoutes == InitRoutes /\ [][NextRoutes]_vars

\* ------------------------------------------------------ claims C19, C20
\* C19: when GET /api/events has a well-formed query, the upstream answers,
\* and the array it gives is empty or holds only dropped elements (null, or
\* lacking user_id, username or ext), the route answers status 200 with an
\* empty data list and no error.
C19_NoAgentIsAnEmptyAnswer ==
  (req.route = "events" /\ req.fetch = "resolves" /\ KeptIdx(events) = {})
    => /\ res.status = 200
       /\ ~res.error
       /\ res.data = <<>>

C19_Witness ==
  /\ req.route = "events"
  /\ req.fetch = "resolves"
  /\ KeptIdx(events) = {}
  /\ Len(events) = 2
  /\ \E i \in 1..2 : events[i].isNull
  /\ \E i \in 1..2 : events[i].state = Num(5)
  /\ res.status = 200

HitsOf(agent) ==
  { j \in 1..Len(loginLogoffData) :
      \/ loginLogoffData[j].ext = agent.extension
      \/ loginLogoffData[j].username = agent.name }

\* the time the first matching summary gives, '' when there is no match or
\* the summary has no such time
ExpectedFirstLogin(agent) ==
  IF HitsOf(agent) = {} THEN sEmpty
  ELSE LET j == FirstOf(HitsOf(agent))
       IN IF loginLogoffData[j].firstLoginTime = Null THEN sEmpty
          ELSE loginLogoffData[j].firstLoginTime

ExpectedLastLogoff(agent) ==
  IF HitsOf(agent) = {} THEN sEmpty
  ELSE LET j == FirstOf(HitsOf(agent))
       IN IF loginLogoffData[j].lastLogoffTime = Null THEN sEmpty
          ELSE loginLogoffData[j].lastLogoffTime

\* C20: when GET /api/agents got the status records, it answers 200 with one
\* record per status record in the same order, each with the extension, name
\* and total_calls of its status record, and with first_login_time and
\* last_logoff_time taken from the first summary whose ext equals the
\* extension or whose username equals the name, '' when no summary matches
\* or the summary has no such time; the summaries are those of the extraction
\* when the events were fetched.
C20_AgentsAreMergedWithFirstMatchingSummary ==
  (req.route = "agents" /\ req.status = "resolves") =>
    /\ res.status = 200
    /\ Len(res.data) = Len(statusData)
    /\ (req.fetch = "resolves" /\ ~getAgentLoginLogoffTimes(events, sortChoice).threw)
         => loginLogoffData = getAgentLoginLogoffTimes(events, sortChoice).results
    /\ \A k \in 1..Len(statusData) :
         /\ res.data[k].extension = statusData[k].extension
         /\ res.data[k].name = statusData[k].name
         /\ res.data[k].total_calls = statusData[k].total_calls
         /\ res.data[k].first_login_time = ExpectedFirstLogin(statusData[k])
         /\ res.data[k].last_logoff_time = ExpectedLastLogoff(statusData[k])

C20_Witness ==
  /\ req.route = "agents"
  /\ req.status = "resolves"
  /\ Len(statusData) = 2
  /\ Len(loginLogoffData) = 2
  /\ \E k \in 1..2 :
       /\ Cardinality(HitsOf(statusData[k])) = 2
       /\ res.data[k].first_login_time = sEmpty
       /\ res.data[k].last_logoff_time # sEmpty
  /\ \E k \in 1..2 : HitsOf(statusData[k]) = {}

\* ---------------------------------------------------------- claim C21
\* C21: when GET /api/agents got the status records and the events fetch
\* failed or the extraction raised, it answers 200 with one record per
\* status record, the status fields kept and both times ''; the route
\* answers 500 only when fetchAgentStatus failed.
C21_EventsFailureDoesNotFailAgents ==
  /\ (/\ req.route = "agents"
      /\ req.status = "resolves"
      /\ \/ req.fetch = "rejects"
         \/ getAgentLoginLogoffTimes(events, sortChoice).threw)
       => /\ res.status = 200
          /\ ~res.error
          /\ Len(res.data) = Len(statusData)
          /\ \A k \in 1..Len(statusData) :
               /\ res.data[k].extension = statusData[k].extension
               /\ res.data[k].name = statusData[k].name
               /\ res.data[k].total_calls = statusData[k].total_calls
               /\ res.data[k].first_login_time = sEmpty
               /\ res.data[k].last_logoff_time = sEmpty
  /\ (req.route = "agents" /\ res.status = 500) => req.status = "rejects"

C21_Witness ==
  /\ req.route = "agents"
  /\ req.status = "resolves"
  /\ req.fetch = "rejects"
  /\ res.status = 200
  /\ Len(res.data) = 2
  /\ res.data[1].extension = ext100
  /\ \E i \in KeptIdx(events) : IsLoginMarker(events[i]) /\ events[i].ext = ext100

\* ------------------------------------------- agentEvents.js: fetchAgentEvents
MAX_RETRIES == 3
NumBaseUrls == 2
NumEndpoints == 9
RecordCap == 10000

\* page lengths the upstream may answer with, and the pageSize the caller
\* passes: a number, or NaN when the route parsed a pageSize that is no number
ShortPage == 4000
FullPage == 5000
PageSizes == {Num(FullPage), NaN}
nextKey == Str(<<"k">>)

\* a response as the code reads it: whether data is an array, the array's
\* length, and the next key found by lines 482-486 (null when there is none)
Responses ==
  { [body |-> "array", len |-> n, key |-> k, stale |-> FALSE] :
      n \in {0, ShortPage, FullPage}, k \in {Null, nextKey} }
    \cup { [body |-> "other", len |-> 0, key |-> k, stale |-> FALSE] :
             k \in {Null, nextKey} }

\* allRecords.length, allRecords kept page by page
TotalLen(recs) ==
  LET F[i \in 0..Len(recs)] == IF i = 0 THEN 0 ELSE F[i - 1] + recs[i].len
  IN F[Len(recs)]

\* data.length < pageSize
lessThanPageSize(n, ps) == ps.t = "number" /\ n < ps.n

\* lines 426-428: allRecords.push(...data) when data is an array
pushPage(recs, r) ==
  IF r.body = "array" /\ r.len > 0
  THEN Append(recs, [len |-> r.len, stale |-> r.stale])
  ELSE recs

\* the break test of lines 490-492, recs being allRecords after the push
stopsAfter(recs, r, ps) ==
  \/ ~Truthy(r.key)
  \/ (r.body = "array" /\ lessThanPageSize(r.len, ps))
  \/ TotalLen(recs) >= RecordCap

\* lines 417-498 run on the response r: the page is pushed, the next key is
\* read, and the loop either ends or starts its next iteration with the
\* first candidate, r being from then on the response of an earlier one
AfterResponse(r) ==
  /\ allRecords' = pushPage(allRecords, r)
  /\ currentStartKey' = r.key
  /\ epc' = IF stopsAfter(pushPage(allRecords, r), r, pageSize)
            THEN "done" ELSE "request"
  /\ response' = [r EXCEPT !.stale = TRUE]
  /\ baseIdx' = 1
  /\ endpointIdx' = 1
  /\ attempt' = 0

\* lines 315-337: the token is obtained and the locals are set
FetchStart ==
  /\ epc = "idle"
  /\ \E tokenOk \in BOOLEAN, ps \in PageSizes :
       /\ pageSize' = ps
       /\ epc' = IF tokenOk THEN "request" ELSE "threw"
  /\ UNCHANGED <<baseIdx, endpointIdx, attempt, response, successfulBaseUrl,
                 successfulEndpoint, allRecords, currentStartKey>>
  /\ UNCHANGED <<coreVars, statusVars, tokenVars, trackVars, extVars>>

\* line 381 answers: lines 382-385, the breaks of 402-410, then 417-498
AttemptOk ==
  /\ epc = "request"
  /\ \E r \in Responses :
       /\ successfulEndpoint' = endpointIdx
       /\ successfulBaseUrl' = baseIdx
       /\ AfterResponse(r)
  /\ UNCHANGED pageSize
  /\ UNCHANGED <<coreVars, statusVars, tokenVars, trackVars, extVars>>

\* variant of AttemptFail that forgets the success of an earlier iteration
AttemptFailFresh ==
  /\ epc = "request"
  /\ IF attempt < MAX_RETRIES - 1
     THEN /\ attempt' = attempt + 1
          /\ UNCHANGED <<epc, baseIdx, endpointIdx, response, successfulBaseUrl,
                         successfulEndpoint, allRecords, currentStartKey>>
     ELSE IF endpointIdx < NumEndpoints
     THEN /\ endpointIdx' = endpointIdx + 1
          /\ attempt' = 0
          /\ UNCHANGED <<epc, baseIdx, response, successfulBaseUrl,
                         successfulEndpoint, allRecords, currentStartKey>>
     ELSE IF baseIdx < NumBaseUrls
     THEN /\ baseIdx' = baseIdx + 1
          /\ endpointIdx' = 1
          /\ attempt' = 0
          /\ UNCHANGED <<epc, response, successfulBaseUrl, successfulEndpoint,
                         allRecords, currentStartKey>>
     ELSE /\ epc' = "threw"
          /\ UNCHANGED <<baseIdx, endpointIdx, attempt, response,
                         successfulBaseUrl, successfulEndpoint, allRecords,
                         currentStartKey>>
  /\ UNCHANGED pageSize
  /\ UNCHANGED <<coreVars, statusVars, tokenVars, trackVars, extVars>>

\* line 381 raises: lines 386-399; after the last attempt on a candidate the
\* tests of lines 402 and 408 read successfulEndpoint and successfulBaseUrl,
\* which are set once and never cleared, and line 417 reads response as it is
AttemptFail ==
  /\ epc = "request"
  /\ IF attempt < MAX_RETRIES - 1
     THEN /\ attempt' = attempt + 1
          /\ UNCHANGED <<epc, baseIdx, endpointIdx, response, successfulBaseUrl,
                         successfulEndpoint, allRecords, currentStartKey>>
     ELSE IF successfulEndpoint # 0 /\ successfulBaseUrl # 0
     THEN /\ AfterResponse(response)
          /\ UNCHANGED <<successfulBaseUrl, successfulEndpoint>>
     ELSE IF endpointIdx < NumEndpoints
     THEN /\ endpointIdx' = endpointIdx + 1
          /\ attempt' = 0
          /\ UNCHANGED <<epc, baseIdx, response, successfulBaseUrl,
                         successfulEndpoint, allRecords, currentStartKey>>
     ELSE IF baseIdx < NumBaseUrls
     THEN /\ baseIdx' = baseIdx + 1
          /\ endpointIdx' = 1
          /\ attempt' = 0
          /\ UNCHANGED <<epc, response, successfulBaseUrl, successfulEndpoint,
                         allRecords, currentStartKey>>
     ELSE /\ epc' = "threw"
          /\ UNCHANGED <<baseIdx, endpointIdx, attempt, response,
                         successfulBaseUrl, successfulEndpoint, allRecords,
                         currentStartKey>>
  /\ UNCHANGED pageSize
  /\ UNCHANGED <<coreVars, statusVars, tokenVars, trackVars, extVars>>

InitFetch ==
  /\ events = <<>>
  /\ sortChoice = 1
  /\ NoCallYet

NextFetch == FetchStart \/ AttemptOk \/ AttemptFail

SpecFetch == InitFetch /\ [][NextFetch]_vars

\* every request returns or fails, and the code between two requests runs
SpecFetchFair == SpecFetch /\ WF_vars(NextFetch)

\* ------------------------------------------------------ claims C22, C23
\* C22: every page in allRecords was pushed from a response received in the
\* iteration that pushed it; an iteration in which no request succeeded
\* pushes nothing.
C22_PagesComeFromTheirOwnIteration ==
  \A i \in 1..Len(allRecords) : ~allRecords[i].stale

\* C23: when every request returns or fails, fetchAgentEvents ends, by
\* returning or by raising, whatever the upstream answers.
C23_PaginationTerminates == <>(epc \in {"done", "threw"})

\* ------------------------------------------- agentStatus.js: fetchAgentStatus
\* the rows of page p of the upstream's report
RowsOf(p) == [r \in 1..pageRows |-> [page |-> p, row |-> r]]

\* data.next_start_key of page p: the key of the page after it, 0 for none
nextStartKeyOf(p) == IF p < numPages THEN p + 1 ELSE 0

\* the page the upstream serves for a start key (no key: the first page)
pageFor(key) == IF key = 0 THEN 1 ELSE key

InitStatus ==
  /\ events = <<>>
  /\ sortChoice = 1
  /\ NoCoreCallYet
  /\ NoFetchYet
  /\ StatusIdle
  /\ numPages \in 1..MaxPages
  /\ pageRows \in 1..MaxPageRows
  /\ NoTokenYet
  /\ NoTrackYet
  /\ NoExtYet

\* lines 203-206: the call starts its first attempt
StatusStart ==
  /\ spc = "idle"
  /\ spc' = "request"
  /\ UNCHANGED <<numPages, pageRows, statusAttempt, delay, records, startKey,
                 returned, waited, failedAt>>
  /\ UNCHANGED <<coreVars, fetchVars, tokenVars, trackVars, extVars>>

\* lines 209-254: the token and the page arrive; the rows are pushed, and the
\* call returns records when the page has no next_start_key
PageOk ==
  /\ spc = "request"
  /\ records' = records \o RowsOf(pageFor(startKey))
  /\ IF nextStartKeyOf(pageFor(startKey)) = 0
     THEN /\ spc' = "done"
          /\ returned' = <<records \o RowsOf(pageFor(startKey))>>
          /\ UNCHANGED startKey
     ELSE /\ startKey' = nextStartKeyOf(pageFor(startKey))
          /\ UNCHANGED <<spc, returned>>
  /\ UNCHANGED <<numPages, pageRows, statusAttempt, delay, waited, failedAt>>
  /\ UNCHANGED <<coreVars, fetchVars, tokenVars, trackVars, extVars>>

\* lines 257-260: the token request or the page request raised; the third
\* failure is rethrown, an earlier one starts the wait
PageFail ==
  /\ spc = "request"
  /\ failedAt' = Append(failedAt, pageFor(startKey))
  /\ spc' = IF statusAttempt = MAX_RETRIES - 1 THEN "threw" ELSE "waiting"
  /\ UNCHANGED <<numPages, pageRows, statusAttempt, delay, records, startKey,
                 returned, waited>>
  /\ UNCHANGED <<coreVars, fetchVars, tokenVars, trackVars, extVars>>

\* variant of RetryAfterWait that starts again from the first page
RetryFromFirstPage ==
  /\ spc = "waiting"
  /\ waited' = Append(waited, delay)
  /\ statusAttempt' = statusAttempt + 1
  /\ delay' = delay * 2
  /\ startKey' = 0
  /\ spc' = "request"
  /\ UNCHANGED <<numPages, pageRows, records, returned, failedAt>>
  /\ UNCHANGED <<coreVars, fetchVars, tokenVars, trackVars, extVars>>

\* variant of RetryAfterWait that keeps the delay
RetryWithSameDelay ==
  /\ spc = "waiting"
  /\ waited' = Append(waited, delay)
  /\ statusAttempt' = statusAttempt + 1
  /\ spc' = "request"
  /\ UNCHANGED <<numPages, pageRows, delay, records, startKey, returned,
                 failedAt>>
  /\ UNCHANGED <<coreVars, fetchVars, tokenVars, trackVars, extVars>>

\* line 260 and the loop header at line 206: the sleep of delay ms ends,
\* attempt++ and delay *= 2, and the while loop starts again with startKey
\* and records as they are
RetryAfterWait ==
  /\ spc = "waiting"
  /\ waited' = Append(waited, delay)
  /\ statusAttempt' = statusAttempt + 1
  /\ delay' = delay * 2
  /\ spc' = "request"
  /\ UNCHANGED <<numPages, pageRows, records, startKey, returned, failedAt>>
  /\ UNCHANGED <<coreVars, fetchVars, tokenVars, trackVars, extVars>>

NextStatus == StatusStart \/ PageOk \/ PageFail \/ RetryAfterWait

SpecStatus == InitStatus /\ [][NextStatus]_vars

\* ------------------------------------------------------ claims C24, C25
\* C24: fetchAgentStatus fails at most three times in a call: the first
\* failure is followed by a wait of 1000 ms and a retry, the second by a wait
\* of 2000 ms and a retry, the third is rethrown and nothing is returned;
\* the call raises only on a third failure, and once it has returned or
\* raised it makes no further request.
C24_AtMostThreeAttemptsWithDoubledWait ==
  /\ [](/\ statusAttempt <= MAX_RETRIES - 1
        /\ Len(failedAt) <= MAX_RETRIES
        /\ Len(waited) = statusAttempt
        /\ waited = SubSeq(<<1000, 2000>>, 1, Len(waited))
        /\ (spc = "threw") = (Len(failedAt) = MAX_RETRIES)
        /\ spc = "threw" => returned = <<>>
        /\ spc = "done" => nextStartKeyOf(pageFor(startKey)) = 0)
  /\ [][(spc \in {"done", "threw"}) => (statusVars' = statusVars)]_vars

C24_Witness ==
  /\ spc = "threw"
  /\ waited = <<1000, 2000>>
  /\ failedAt = <<1, 2, 2>>
  /\ Len(records) > 0
  /\ returned = <<>>

\* the rows of the upstream's report, page after page
AllRows ==
  [k \in 1..(numPages * pageRows) |->
     [page |-> ((k - 1) \div pageRows) + 1, row |-> ((k - 1) % pageRows) + 1]]

\* C25: whatever pages succeed and fail, the rows gathered so far are the
\* rows of the pages before the one to request next, each once and in page
\* order, and the array returned holds the rows of every page once and in
\* page order.
C25_RowsOncePerPageInOrder ==
  /\ Len(records) <= Len(AllRows)
  /\ records = SubSeq(AllRows, 1, Len(records))
  /\ spc \in {"request", "waiting"}
       => Len(records) = (pageFor(startKey) - 1) * pageRows
  /\ spc = "done" => returned = <<AllRows>>

C25_Witness ==
  /\ spc = "done"
  /\ numPages = 3
  /\ pageRows = 2
  /\ failedAt = <<2, 3>>
  /\ Len(returned[1]) = 6

\* ------------------------------------------------------- tokenService.js
TwoMinutes == 120000
OneHour == 3600000
TickMs == 60000
NumCandidates == 3

tenantA == Str(<<"a">>)
tenantPortalA == Str(<<"p", "o", "r", "t", "a", "l", ":", "a">>)
Tenants == {tenantA, tenantPortalA}

\* data.expiresIn of a login response, in seconds
ExpiresIns == {Undefined, Num(180), Num(60)}

\* the key getToken uses: the tenant itself
tokenKey(t) == t.s
\* the key getPortalToken uses: `portal:${tenant}`
portalKey(t) == <<"p", "o", "r", "t", "a", "l", ":">> \o t.s

\* cache.get(key): the entry in a one-element tuple, <<>> for undefined
cacheGet(c, key) ==
  LET hits == { i \in 1..Len(c) : c[i].key = key }
  IN IF hits = {} THEN <<>> ELSE <<c[CHOOSE i \in hits : TRUE]>>

\* cache.set(key, entry): an existing key keeps its place in the Map
cacheSet(c, entry) ==
  IF cacheGet(c, entry.key) = <<>> THEN Append(c, entry)
  ELSE [i \in 1..Len(c) |-> IF c[i].key = entry.key THEN entry ELSE c[i]]

\* cached && now < cached.expiresAt - ms('2m')
isFresh(c, key, t) ==
  /\ cacheGet(c, key) # <<>>
  /\ t < cacheGet(c, key)[1].expiresAt - TwoMinutes

\* line 83
expiresAtOf(expiresIn, t) ==
  IF Truthy(expiresIn) THEN t + expiresIn.n * 1000 ELSE t + OneHour

InitToken ==
  /\ events = <<>>
  /\ sortChoice = 1
  /\ NoCallYet

\* Date.now() moves on
Tick ==
  /\ clock < MaxTicks * TickMs
  /\ clock' = clock + TickMs
  /\ UNCHANGED <<cache, tpc, tenant, now, candidateIdx, tokenAttempt, sent,
                 access, cacheAtCall, tokenCalls, issued>>
  /\ UNCHANGED <<coreVars, fetchVars, statusVars, trackVars, extVars>>

\* one call of getToken(t), lines 21-44, made while no getPortalToken call is
\* in progress: a fresh entry is returned as it is; otherwise the login
\* either answers and the entry under the key t is set, or fails three
\* times and the call raises
GetToken ==
  /\ tpc # "login"
  /\ tokenCalls < MaxTokenCalls
  /\ tokenCalls' = tokenCalls + 1
  /\ \E t \in Tenants, ok \in BOOLEAN :
       IF ~isFresh(cache, tokenKey(t), clock) /\ ok
       THEN /\ cache' = cacheSet(cache,
                 [key |-> tokenKey(t), access |-> Num(issued + 1),
                  expiresAt |-> clock + OneHour, by |-> "getToken",
                  tenant |-> t])
            /\ issued' = issued + 1
       ELSE UNCHANGED <<cache, issued>>
  /\ tpc' = "idle"
  /\ UNCHANGED <<clock, tenant, now, candidateIdx, tokenAttempt, sent, access,
                 cacheAtCall>>
  /\ UNCHANGED <<coreVars, fetchVars, statusVars, trackVars, extVars>>

\* lines 54-57: getPortalToken(t) is called; a fresh entry under the key
\* `portal:${t}` is returned, otherwise the login loop starts
PortalStart ==
  /\ tpc # "login"
  /\ tokenCalls < MaxTokenCalls
  /\ tokenCalls' = tokenCalls + 1
  /\ \E t \in Tenants :
       /\ tenant' = t
       /\ IF isFresh(cache, portalKey(t), clock)
          THEN /\ tpc' = "returned"
               /\ access' = cacheGet(cache, portalKey(t))[1].access
          ELSE /\ tpc' = "login"
               /\ access' = Undefined
  /\ now' = clock
  /\ candidateIdx' = 1
  /\ tokenAttempt' = 0
  /\ sent' = <<>>
  /\ cacheAtCall' = cache
  /\ UNCHANGED <<cache, clock, issued>>
  /\ UNCHANGED <<coreVars, fetchVars, statusVars, trackVars, extVars>>

\* lines 73-87: the post answers with an access token
LoginOk ==
  /\ tpc = "login"
  /\ \E expiresIn \in ExpiresIns :
       cache' = cacheSet(cache,
                  [key |-> portalKey(tenant), access |-> Num(issued + 1),
                   expiresAt |-> expiresAtOf(expiresIn, clock),
                   by |-> "getPortalToken", tenant |-> tenant])
  /\ access' = Num(issued + 1)
  /\ issued' = issued + 1
  /\ sent' = Append(sent, candidateIdx)
  /\ tpc' = "returned"
  /\ UNCHANGED <<clock, tenant, now, candidateIdx, tokenAttempt, cacheAtCall,
                 tokenCalls>>
  /\ UNCHANGED <<coreVars, fetchVars, statusVars, trackVars, extVars>>

\* variant of LoginFail that leaves a candidate after its first failure
LoginFailNoRetry ==
  /\ tpc = "login"
  /\ sent' = Append(sent, candidateIdx)
  /\ IF candidateIdx < NumCandidates
     THEN /\ candidateIdx' = candidateIdx + 1
          /\ tokenAttempt' = 0
          /\ UNCHANGED tpc
     ELSE /\ tpc' = "threw"
          /\ UNCHANGED <<candidateIdx, tokenAttempt>>
  /\ UNCHANGED <<cache, clock, tenant, now, access, cacheAtCall, tokenCalls,
                 issued>>
  /\ UNCHANGED <<coreVars, fetchVars, statusVars, trackVars, extVars>>

\* lines 73-97: the post raises, or answers without an access token so that
\* line 80 raises; the catch sleeps and retries, goes to the next candidate
\* after the third attempt, and line 100 raises after the last candidate
LoginFail ==
  /\ tpc = "login"
  /\ sent' = Append(sent, candidateIdx)
  /\ IF tokenAttempt < MAX_RETRIES - 1
     THEN /\ tokenAttempt' = tokenAttempt + 1
          /\ UNCHANGED <<tpc, candidateIdx>>
     ELSE IF candidateIdx < NumCandidates
     THEN /\ candidateIdx' = candidateIdx + 1
          /\ tokenAttempt' = 0
          /\ UNCHANGED tpc
     ELSE /\ tpc' = "threw"
          /\ UNCHANGED <<candidateIdx, tokenAttempt>>
  /\ UNCHANGED <<cache, clock, tenant, now, access, cacheAtCall, tokenCalls,
                 issued>>
  /\ UNCHANGED <<coreVars, fetchVars, statusVars, trackVars, extVars>>

NextToken == Tick \/ GetToken \/ PortalStart \/ LoginOk \/ LoginFail

SpecToken == InitToken /\ [][NextToken]_vars

\* ------------------------------------------------------ claims C26, C27
\* the entries getPortalToken wrote for tenant t
PortalEntriesOf(c, t) ==
  { i \in 1..Len(c) : c[i].by = "getPortalToken" /\ c[i].tenant = t }

\* C26: a getPortalToken call returns without a login request exactly when,
\* at the call, the cache held an entry of that tenant written by
\* getPortalToken and the time was before its expiresAt minus two minutes,
\* and it then returns that entry's token; a call that logged in and
\* returned leaves every entry written by getToken and every entry of
\* another tenant as it was.
C26_CacheHitIffFreshPortalEntry ==
  tpc \in {"login", "returned", "threw"} =>
    /\ (tpc = "returned" /\ sent = <<>>)
         = (\E i \in PortalEntriesOf(cacheAtCall, tenant) :
              now < cacheAtCall[i].expiresAt - TwoMinutes)
    /\ (tpc = "returned" /\ sent = <<>>)
         => /\ cache = cacheAtCall
            /\ \E i \in PortalEntriesOf(cacheAtCall, tenant) :
                 access = cacheAtCall[i].access
    /\ (tpc = "returned" /\ sent # <<>>)
         => \A i \in 1..Len(cacheAtCall) :
              (cacheAtCall[i].by = "getToken" \/ cacheAtCall[i].tenant # tenant)
                => cacheGet(cache, cacheAtCall[i].key) = <<cacheAtCall[i]>>

CandidateOrder == <<1, 1, 1, 2, 2, 2, 3, 3, 3>>

\* C27: the login requests of a call go to the candidates in the order
\* oauth, v2 login, legacy login, three to each before the next; the call
\* raises only after nine failed requests and then leaves the cache as it
\* was; while it is trying the cache is as it was; when a request brings a
\* token the call returns it and the cache holds it under the tenant's key.
C27_CandidatesInOrderThreeAttemptsEach ==
  /\ Len(sent) <= Len(CandidateOrder)
  /\ sent = SubSeq(CandidateOrder, 1, Len(sent))
  /\ tpc = "threw"
       => /\ Len(sent) = Len(CandidateOrder)
          /\ cache = cacheAtCall
          /\ access = Undefined
  /\ tpc = "login"
       => /\ Len(sent) < Len(CandidateOrder)
          /\ cache = cacheAtCall
  /\ (tpc = "returned" /\ sent # <<>>)
       => /\ access.t = "number"
          /\ cacheGet(cache, portalKey(tenant)) # <<>>
          /\ cacheGet(cache, portalKey(tenant))[1].access = access

C27_Witness ==
  /\ tpc = "returned"
  /\ sent = <<1, 1, 1, 2, 2>>
  /\ cacheAtCall # <<>>
  /\ Len(cache) = Len(cacheAtCall) + 1

\* ------------------------------------------ state-change capture (index.html)
AVAILABLE_STATE_ID == "18f56f25d9624a18ab11024b20f7b7ad"
OtherStateId == "0a1b2c3d4e5f"
AllAgentsKey == "_all_agents"

\* a state-change PUT: the route it came through, the state id of its URL,
\* its extension query parameter ("" when absent), the extension its body
\* gives through extension || ext || userId || id ("" when none), whether the
\* upstream's answer carries a Date header, and whether the upstream answered
\* at all (a network error or a status of 500 and above makes axios raise).
\* /api/track-state answers 400 without asking the upstream when the query
\* has no extension (lines 437-439), so its requests here carry one.
TrackPuts ==
  [route : {"track"}, stateId : {AVAILABLE_STATE_ID, OtherStateId},
   queryExt : {"1001"}, bodyExt : {""}, hasDate : BOOLEAN, ok : {TRUE}]
    \cup [route : {"track"}, stateId : {AVAILABLE_STATE_ID},
          queryExt : {"1001"}, bodyExt : {""}, hasDate : {FALSE},
          ok : {FALSE}]

UcpPuts ==
  [route : {"ucp"}, stateId : {AVAILABLE_STATE_ID, OtherStateId},
   queryExt : {"1001"}, bodyExt : {""}, hasDate : BOOLEAN, ok : {TRUE}]
    \cup [route : {"ucp"}, stateId : {AVAILABLE_STATE_ID, OtherStateId},
          queryExt : {""}, bodyExt : {"", "1002"}, hasDate : BOOLEAN,
          ok : {TRUE}]
    \cup [route : {"ucp"}, stateId : {AVAILABLE_STATE_ID},
          queryExt : {""}, bodyExt : {""}, hasDate : {FALSE}, ok : {FALSE}]

ProxyPuts ==
  [route : {"proxy"}, stateId : {AVAILABLE_STATE_ID, OtherStateId},
   queryExt : {"", "1001"}, bodyExt : {""}, hasDate : BOOLEAN, ok : {TRUE}]

Puts == TrackPuts \cup UcpPuts \cup ProxyPuts

\* agentStateChanges.has(key)
mapHas(m, key) == \E i \in 1..Len(m) : m[i].key = key

\* agentStateChanges.set(key, [{ stateId, timestamp }]) for a key the Map
\* does not hold: a new entry at the end
setFirst(m, key, stateId, ts) ==
  Append(m, [key |-> key,
             changes |-> <<[stateId |-> stateId, timestamp |-> ts]>>])

\* variant of recordFirst that replaces the entry of a key by an earlier one
recordEarliest(m, key, stateId, ts) ==
  IF ~mapHas(m, key) THEN setFirst(m, key, stateId, ts)
  ELSE [i \in 1..Len(m) |->
          IF m[i].key = key /\ ts < m[i].changes[1].timestamp
          THEN [key |-> key,
                changes |-> <<[stateId |-> stateId, timestamp |-> ts]>>]
          ELSE m[i]]

\* lines 378-382, 471-475, 527-531: if (!agentStateChanges.has(key)) set
recordFirst(m, key, stateId, ts) ==
  IF mapHas(m, key) THEN m ELSE setFirst(m, key, stateId, ts)

\* x || y on strings
orElse(x, y) == IF x # "" THEN x ELSE y

InitTrack ==
  /\ events = <<>>
  /\ sortChoice = 1
  /\ NoCallYet

\* a handler forwards a PUT and the upstream answers it: the answer is
\* stamped with the upstream's clock and is on its way back (the handler is
\* suspended at await axios.put, or the proxy waits for proxyRes)
PutForwarded ==
  /\ upstreamNow <= MaxPuts
  /\ Cardinality(inFlight) < MaxInFlight
  /\ \E p \in Puts :
       inFlight' = inFlight \cup {[put |-> p, date |-> upstreamNow]}
  /\ upstreamNow' = upstreamNow + 1
  /\ UNCHANGED <<agentStateChanges, observed>>
  /\ UNCHANGED <<coreVars, fetchVars, statusVars, tokenVars, extVars>>

\* PUT /api/track-state/:stateId, lines 459-481, from the answer on: the
\* AVAILABLE change is filed under the extension with the Date header, or
\* with the server's time when the header is missing; a failed upstream call
\* goes to the catch
TrackState ==
  \E r \in inFlight :
    /\ r.put.route = "track"
    /\ inFlight' = inFlight \ {r}
    /\ LET ts == IF r.put.hasDate THEN r.date ELSE upstreamNow
           key == r.put.queryExt
       IN IF r.put.ok /\ r.put.stateId = AVAILABLE_STATE_ID
          THEN /\ agentStateChanges'
                    = recordFirst(agentStateChanges, key, r.put.stateId, ts)
               /\ observed' = observed \cup {[key |-> key, timestamp |-> ts]}
          ELSE UNCHANGED <<agentStateChanges, observed>>
    /\ UNCHANGED upstreamNow
    /\ UNCHANGED <<coreVars, fetchVars, statusVars, tokenVars, extVars>>

\* PUT /ucp/v2/callcenter/agent/state/:stateId, lines 501-538, from the
\* answer on: the key is the query's extension, else the body's, else
\* '_all_agents'; nothing is filed without a Date header
UcpState ==
  \E r \in inFlight :
    /\ r.put.route = "ucp"
    /\ inFlight' = inFlight \ {r}
    /\ LET key == orElse(orElse(r.put.queryExt, r.put.bodyExt), AllAgentsKey)
       IN IF r.put.ok /\ r.put.stateId = AVAILABLE_STATE_ID /\ r.put.hasDate
          THEN /\ agentStateChanges'
                    = recordFirst(agentStateChanges, key, r.put.stateId,
                                  r.date)
               /\ observed'
                    = observed \cup {[key |-> key, timestamp |-> r.date]}
          ELSE UNCHANGED <<agentStateChanges, observed>>
    /\ UNCHANGED upstreamNow
    /\ UNCHANGED <<coreVars, fetchVars, statusVars, tokenVars, extVars>>

\* onProxyRes of the /ucp proxy, lines 364-386: the key is the query's
\* extension, else '_all_agents'
onProxyRes ==
  \E r \in inFlight :
    /\ r.put.route = "proxy"
    /\ inFlight' = inFlight \ {r}
    /\ LET key == orElse(r.put.queryExt, AllAgentsKey)
       IN IF r.put.stateId = AVAILABLE_STATE_ID /\ r.put.hasDate
          THEN /\ agentStateChanges'
                    = recordFirst(agentStateChanges, key, r.put.stateId,
                                  r.date)
               /\ observed'
                    = observed \cup {[key |-> key, timestamp |-> r.date]}
          ELSE UNCHANGED <<agentStateChanges, observed>>
    /\ UNCHANGED upstreamNow
    /\ UNCHANGED <<coreVars, fetchVars, statusVars, tokenVars, extVars>>

NextTrack == PutForwarded \/ TrackState \/ UcpState \/ onProxyRes

SpecTrack == InitTrack /\ [][NextTrack]_vars

\* ------------------------------------------------------------- claim C28
\* the timestamps of the AVAILABLE changes observed for a key
ObservedFor(key) == { o.timestamp : o \in { x \in observed : x.key = key } }

\* C28: after any interleaving of state-change PUTs through the tracking
\* routes and the proxy, agentStateChanges holds for each key exactly one
\* record, that record is an AVAILABLE change and carries the smallest
\* timestamp among the AVAILABLE changes observed for the key, and every key
\* with an observed AVAILABLE change has an entry.
C28_EarliestAvailableChangePerKey ==
  /\ \A i, j \in 1..Len(agentStateChanges) :
       agentStateChanges[i].key = agentStateChanges[j].key => i = j
  /\ \A i \in 1..Len(agentStateChanges) :
       LET e == agentStateChanges[i]
       IN /\ Len(e.changes) = 1
          /\ e.changes[1].stateId = AVAILABLE_STATE_ID
          /\ e.changes[1].timestamp \in ObservedFor(e.key)
          /\ \A t \in ObservedFor(e.key) : e.changes[1].timestamp <= t
  /\ \A o \in observed : mapHas(agentStateChanges, o.key)

\* --------------------------------------- ensureExt (agentStatus.js 235-251)
sExtension == <<"e">>
sExt == <<"x">>
sUserId == <<"u">>
sUser_id == <<"v">>
sId == <<"i">>
sEntryKey == <<"k">>

\* the upstream records: a JSON field is absent (Undefined here), null or a
\* string; the extension may also be the empty string
UpstreamRows ==
  [extension : {Undefined, Null, Str(<<>>), Str(sExtension)},
   ext : {Undefined, Null, Str(sExt)},
   userId : {Undefined, Null, Str(sUserId)},
   user_id : {Undefined, Null, Str(sUser_id)},
   id : {Undefined, Null, Str(sId)}]

\* a ?? b
nullish(a, b) == IF a \in {Undefined, Null} THEN b ELSE a

\* r.extension ?? r.ext ?? r.userId ?? r.user_id ?? r.id ?? '', line 237
firstIdentity(r) ==
  nullish(r.extension,
    nullish(r.ext, nullish(r.userId, nullish(r.user_id, nullish(r.id, Str(<<>>))))))

\* lines 236-239: ({ extension: ..., ...r }); the spread comes second, so an
\* extension property of r, whatever its value, replaces the computed one
ensureExt(r) ==
  [r EXCEPT !.extension =
     IF r.extension # Undefined THEN r.extension ELSE firstIdentity(r)]

\* line 246: { extension: ext, ...info } for an entry [ext, info]
withEntryKey(key, info) ==
  [info EXCEPT !.extension =
     IF info.extension # Undefined THEN info.extension ELSE Str(key)]

InitExt ==
  /\ events = <<>>
  /\ sortChoice = 1
  /\ NoCoreCallYet
  /\ NoFetchYet
  /\ NoStatusYet
  /\ NoTokenYet
  /\ NoTrackYet
  /\ payloadShape \in {"array", "object"}
  /\ entryKey = IF payloadShape = "object" THEN sEntryKey ELSE <<>>
  /\ upstreamRow \in UpstreamRows
  /\ chunk = <<>>

\* lines 241-242: chunk = data.data.map(ensureExt)
MapDataArray ==
  /\ payloadShape = "array"
  /\ chunk = <<>>
  /\ chunk' = <<ensureExt(upstreamRow)>>
  /\ UNCHANGED <<payloadShape, entryKey, upstreamRow>>
  /\ UNCHANGED <<coreVars, fetchVars, statusVars, tokenVars, trackVars>>

\* lines 243-246: chunk = Object.entries(data).map(...)
MapEntries ==
  /\ payloadShape = "object"
  /\ chunk = <<>>
  /\ chunk' = <<ensureExt(withEntryKey(entryKey, upstreamRow))>>
  /\ UNCHANGED <<payloadShape, entryKey, upstreamRow>>
  /\ UNCHANGED <<coreVars, fetchVars, statusVars, tokenVars, trackVars>>

NextExt == MapDataArray \/ MapEntries

SpecExt == InitExt /\ [][NextExt]_vars

\* ------------------------------------------------------------- claim C29
\* the extension the record should get: its own, else its key in an object
\* payload, else ext, userId, user_id, id in that order, else ''
ExpectedExtension ==
  nullish(upstreamRow.extension,
    IF payloadShape = "object" THEN Str(entryKey)
    ELSE firstIdentity(upstreamRow))

\* C29: every record of a chunk has an extension that is neither null nor
\* undefined, namely the first of the record's extension, ext, userId,
\* user_id and id that is neither, else the empty string, for both payload
\* shapes and also when the upstream's extension is null; the other fields
\* are the upstream's.
C29_ExtensionIsNeverNullish ==
  \A i \in 1..Len(chunk) :
    /\ chunk[i].extension \notin {Undefined, Null}
    /\ chunk[i].extension = ExpectedExtension
    /\ \A f \in {"ext", "userId", "user_id", "id"} :
         chunk[i][f] = upstreamRow[f]

\* ------------------------------------------------------------- claim C30
\* the orders in which a batch of n events can arrive
Orders(n) ==
  { p \in [1..n -> 1..n] : \A i, j \in 1..n : p[i] = p[j] => i = j }

Reordered(evs, p) == [i \in 1..Len(evs) |-> evs[p[i]]]

\* the four times of each agent key, for grouped data and its summaries
TimesByKey(ad, summaries) ==
  { [key |-> ad[i].key,
     firstLoginTimestamp |-> summaries[i].firstLoginTimestamp,
     firstLoginTime |-> summaries[i].firstLoginTime,
     lastLogoffTimestamp |-> summaries[i].lastLogoffTimestamp,
     lastLogoffTime |-> summaries[i].lastLogoffTime] : i \in 1..Len(ad) }

\* C30: when a call has returned, the call on any reordering of the same
\* batch returns too and gives every agent key the same firstLoginTimestamp,
\* firstLoginTime, lastLogoffTimestamp and lastLogoffTime.
C30_TimesDoNotDependOnInputOrder ==
  pc = "done" =>
    \A p \in Orders(Len(events)) :
      LET g == forEachLoop(Reordered(events, p), 1, <<>>)
      IN /\ ~g.threw
         /\ TimesByKey(g.agentData, summariesOf(g.agentData, sortChoice))
              = TimesByKey(agentData, results)

====
